---- MODULE Spec2Model ----
(***************************************************************************)
(* A model of the document-to-answer pipeline of src/rag_processor.py      *)
(* (class RAGProcessor) as it is driven by the threaded request layer of   *)
(* src/app.py.                                                             *)
(*                                                                         *)
(* Every request is a thread of the Flask server (app.run(threaded=True)): *)
(* it runs process_pdf or get_answer on the one shared RAGProcessor, one   *)
(* remote call (or one run of purely local code) per step, so that the     *)
(* steps of concurrent requests interleave as the interpreter allows.      *)
(* The vector index service is the shared remote state; every call to it   *)
(* may raise.                                                              *)
(***************************************************************************)
EXTENDS Integers, Sequences, FiniteSets, TLC

----------------------------------------------------------------------------
(* Bounds of the model.                                                    *)

\* The clock (whole seconds, int(time.time())) runs from 0 to MaxTime while
\* one request is followed through its retries, and from 0 to MaxSessionTime
\* while several requests are followed.
MaxTime == 4
MaxSessionTime == 1

\* The number of chunks the splitter makes of a readable document.
NumChunks == 1

\* The index quota of the vector index service: create_index raises once
\* this many indexes exist.
MaxIndexes == 2

\* The remote calls that raise while several requests are followed.
MaxFaults == 1

\* The indexes list_indexes returns when is_pdf_processed is applied on its
\* own.
MaxListed == 2

\* random.uniform(0, 2) is drawn in steps of 1/JitterSteps of a second, and
\* delays are counted in those steps.
JitterSteps == 2

\* The chunk texts that get_answer makes excerpts of are at most Margin
\* characters shorter or longer than the 200 characters of an excerpt.
Margin == 1

\* The fields of the metadata a chunk has before it is sanitized.
MaxFields == 2

\* The requests, each served by a thread of its own (app.run(threaded=True)),
\* and the document hashes they are called with (md5(...).hexdigest()[:8]:
\* always 8 hex digits).
Threads == {1, 2}
Hashes == {"0a1b2c3d"}

\* What the loader and the splitter make of the uploaded file.
Files == {"ok", "unreadable", "nocontent", "nochunks"}

----------------------------------------------------------------------------
(* Program constants.                                                      *)

max_attempts == 5
base_delay == 2
vectorstore_attempts == 3
vectorstore_delay == 15
cleanup_max_wait == 90
cleanup_poll == 5
ready_max_wait == 300
ready_poll == 10
retriever_k == 5
max_sources == 3
excerpt_length == 200
dl_meta_limit == 800
string_limit == 500
list_limit == 10
other_limit == 300
chunk_id_length == 8
hash_length == 8

----------------------------------------------------------------------------
(* Index names: f"pdf-{pdf_hash}-{timestamp}" is kept as the pair          *)
(* <<pdf_hash, timestamp>>.                                                *)

Names == Hashes \X (0..MaxTime)
NoName == <<"", -1>>

IndexName(pdf_hash, timestamp) == <<pdf_hash, timestamp>>

\* name.startswith(f"pdf-{pdf_hash}"): the hash is the 8 characters after
\* "pdf-", and every hash has 8 characters, so the prefix matches exactly
\* the names made from this hash.
StartsWith(name, pdf_hash) == name[1] = pdf_hash

----------------------------------------------------------------------------
(* Results: the dict every operation returns.                              *)

NoResult ==
  [success |-> FALSE, error |-> "", is_existing |-> FALSE,
   chunk_count |-> 0, index_name |-> NoName]

Failure(msg) == [NoResult EXCEPT !.error = msg]

AlreadyProcessed ==
  [NoResult EXCEPT !.success = TRUE, !.is_existing = TRUE]

Processed(n, name) ==
  [NoResult EXCEPT !.success = TRUE, !.chunk_count = n, !.index_name = name]

Answered == [NoResult EXCEPT !.success = TRUE]

----------------------------------------------------------------------------
VARIABLES
  now,                 \* the clock, in whole seconds
  indexes,             \* the names of the remote indexes that exist
  terminating,         \* those being deleted (delete_index is asynchronous)
  total_vector_count,  \* per name, the vectors the index holds
  vectorstores,        \* RAGProcessor.vectorstores: hash -> name of the open handle
  th,                  \* per thread, the locals of the running operation
  hist,                \* per thread, what the running call has done so far
  dropped,             \* per hash, the cache entry the last clear() threw away
  budget,              \* the remote calls that may still raise
  verified,            \* the indexes a population try has upserted and verified
  session,             \* the Flask session of one client (src/app.py)
  succeeded,           \* the hash process_pdf returned success for since the
                       \* session's last upload or reset
  call                 \* the last local function applied on its own: its name,
                       \* its arguments and its value

vars ==
  <<now, indexes, terminating, total_vector_count, vectorstores, th, hist,
    dropped, budget, verified, session, succeeded, call>>

remote == <<indexes, terminating, total_vector_count>>

web == <<session, succeeded>>

\* session.clear(): no key is set
NoSession == [pdf_hash |-> "", is_processed |-> FALSE]

Idle ==
  [pc |-> "idle", op |-> "none", pdf_hash |-> "", file |-> "ok",
   attempt |-> 0, index_name |-> NoName,
   vs_attempt |-> 0, matching_index |-> NoName, vectorstore |-> NoName,
   slept_at |-> 0, result |-> NoResult,
   cleanup |-> "", wait_time |-> 0,
   elapsed |-> 0, index_stats |-> "", delay |-> 0]

\* What a call has done so far; no action reads it.
\*   attempts, sleeps   single attempts started, backoff sleeps started
\*   succeeded_at       the number of the first attempt that succeeded
\*   last               the result of the last attempt that ended
\*   mutated            a create_index or delete_index call was issued
\*   made_index         the running attempt has created its index
\*   prev_index         the index the last earlier attempt created
\*   invokes            retrieval_chain.invoke calls
\*   cache_writes       writes of self.vectorstores[pdf_hash]
\*   fault              a remote call of get_answer raised
\*   had_index          get_answer: an index of the hash existed at the call
\*   was_cached         get_answer: the hash was in the cache at the call
\*   had_vectors        process_pdf: a non-empty index of the hash existed
\*   clean              process_pdf: had_vectors, and no remote call of the
\*                      already-processed path (lines 294-308) has raised
\*   opened             process_pdf: the handle of line 308 opened
\*   tries, vs_waited   the population tries of the running attempt (or of the
\*                      last one), and the seconds waited between them
\*   all_tries          the population tries of the call
\*   listed_none        get_answer: the listing showed no index of the hash
\*   expected           get_answer: the entry clear() dropped, when line 367
\*                      wrote the cache
NoHist ==
  [attempts |-> 0, sleeps |-> 0, succeeded_at |-> 0, last |-> NoResult,
   mutated |-> FALSE, made_index |-> FALSE, prev_index |-> NoName,
   invokes |-> 0, cache_writes |-> 0, fault |-> FALSE,
   had_index |-> FALSE, was_cached |-> FALSE,
   had_vectors |-> FALSE, clean |-> FALSE, opened |-> FALSE,
   listed_none |-> FALSE, expected |-> NoName,
   tries |-> 0, vs_waited |-> 0, all_tries |-> 0]

Matching(pdf_hash) == {n \in indexes : StartsWith(n, pdf_hash)}

NonEmpty(pdf_hash) == {n \in Matching(pdf_hash) : total_vector_count[n] > 0}

\* No local function has been applied on its own.
NoCall == [fn |-> "none"]

\* RAGProcessor.__init__ (lines 20-42) and a server that has just started
Fresh ==
  /\ call = NoCall
  /\ now = 0
  /\ terminating = {}
  /\ vectorstores = [h \in Hashes |-> NoName]
  /\ th = [t \in Threads |-> Idle]
  /\ hist = [t \in Threads |-> NoHist]
  /\ dropped = [h \in Hashes |-> NoName]
  /\ verified = {}
  /\ session = NoSession
  /\ succeeded = ""

Init ==
  /\ Fresh
  /\ indexes = {}
  /\ total_vector_count = [n \in Names |-> 0]
  /\ budget = MaxFaults

\* Any number of remote calls may raise.
Unlimited == 0 - 1

\* What a remote call may do: return (TRUE) or raise (FALSE).
Outcomes == IF budget = 0 THEN {TRUE} ELSE BOOLEAN

Spend(ok) ==
  budget' = IF ok \/ budget = Unlimited THEN budget ELSE budget - 1

----------------------------------------------------------------------------
(* The environment: time passes, the service completes a deletion, and a   *)
(* request of the same server clears the cache.                            *)

\* The clock is read at line 132 only, so it matters only there which
\* second it is: the seconds pass while a thread is about to read the clock
\* or sleeps before reading it.
Tick(limit) ==
  /\ now < limit
  /\ \E t \in Threads : th[t].pc \in {"sa_load", "bo_sleep"}
  /\ now' = now + 1
  /\ UNCHANGED <<call, verified, web, budget, remote, vectorstores, th, hist, dropped>>

DeletionCompletes ==
  \E n \in terminating :
    /\ indexes' = indexes \ {n}
    /\ terminating' = terminating \ {n}
    /\ UNCHANGED <<call, budget, now, verified, web, total_vector_count,
                   vectorstores, th, hist, dropped>>

\* upload_file and reset_session: rag_processor.vectorstores.clear()
ClearCache ==
  /\ \E h \in Hashes : vectorstores[h] # NoName
  /\ dropped' = [h \in Hashes |->
                   IF vectorstores[h] # NoName THEN vectorstores[h] ELSE dropped[h]]
  /\ vectorstores' = [h \in Hashes |-> NoName]
  /\ UNCHANGED <<call, budget, now, verified, web, remote, th, hist>>

----------------------------------------------------------------------------
(* Helpers on one thread's locals (s) and history (g).                     *)

Set(f, t, v) == [f EXCEPT ![t] = v]

\* A call starts: the history of the previous call is forgotten.
Called(op, pdf_hash, file) ==
  [Idle EXCEPT !.op = op, !.pdf_hash = pdf_hash, !.file = file]

AskHist(pdf_hash) ==
  [NoHist EXCEPT !.had_index = (Matching(pdf_hash) # {}),
                 !.was_cached = (vectorstores[pdf_hash] # NoName)]

\* The call returns r; its other locals are dead.
Done(s, r) == [Called(s.op, s.pdf_hash, s.file) EXCEPT !.pc = "done", !.result = r]

\* An exception that leaves the operation.
Escapes(s, msg) == [Called(s.op, s.pdf_hash, s.file) EXCEPT !.pc = "raised"]

\* lines 333-339 and 452-458: the except of the operation's outermost try
\* turns the exception into a failure result
Caught(s, msg) == Done(s, Failure(msg))

----------------------------------------------------------------------------
(* get_answer (src/rag_processor.py 341-458), one shared access per step.  *)

\* A lookup that lists the remote indexes whether or not the hash is cached.
GetAnswerCheckAlwaysLists(t) ==
  /\ th[t].pc = "idle"
  /\ \E h \in Hashes :
       /\ th' = Set(th, t, [Called("ask", h, "ok") EXCEPT !.pc = "ga_list"])
       /\ hist' = Set(hist, t, AskHist(h))
  /\ UNCHANGED <<budget, now, verified, web, remote, vectorstores, dropped>>

\* line 347: if pdf_hash not in self.vectorstores
GetAnswerCheck(t) ==
  /\ th[t].pc = "idle"
  /\ \E h \in Hashes :
       /\ th' = Set(th, t, [Called("ask", h, "ok") EXCEPT
                              !.pc = IF vectorstores[h] # NoName
                                     THEN "ga_use" ELSE "ga_list"])
       /\ hist' = Set(hist, t, AskHist(h))
  /\ UNCHANGED <<budget, now, verified, web, remote, vectorstores, dropped>>

\* A listing step without the early return of lines 360-364.
GetAnswerListNoReturn(t) ==
  /\ th[t].pc = "ga_list"
  /\ \E ok \in Outcomes : Spend(ok) /\
       IF ~ok
       THEN /\ th' = Set(th, t, Done(th[t], Failure("Failed to generate answer")))
            /\ hist' = Set(hist, t, [hist[t] EXCEPT !.fault = TRUE])
       ELSE IF Matching(th[t].pdf_hash) = {}
       THEN /\ th' = Set(th, t, [th[t] EXCEPT !.pc = "ga_open"])
            /\ hist' = Set(hist, t, [hist[t] EXCEPT !.listed_none = TRUE])
       ELSE \E m \in Matching(th[t].pdf_hash) :
              /\ th' = Set(th, t, [th[t] EXCEPT !.pc = "ga_open", !.matching_index = m])
              /\ UNCHANGED hist
  /\ UNCHANGED <<now, verified, web, remote, vectorstores, dropped>>

\* lines 351-364: list_indexes and the first name with the prefix
GetAnswerList(t) ==
  /\ th[t].pc = "ga_list"
  /\ \E ok \in Outcomes : Spend(ok) /\
       IF ~ok
       THEN \* list_indexes raises: caught at line 452
            /\ th' = Set(th, t, Caught(th[t], "Failed to generate answer"))
            /\ hist' = Set(hist, t, [hist[t] EXCEPT !.fault = TRUE])
       ELSE IF Matching(th[t].pdf_hash) = {}
       THEN /\ th' = Set(th, t, Done(th[t], Failure("PDF not processed or index not found")))
            /\ hist' = Set(hist, t, [hist[t] EXCEPT !.listed_none = TRUE])
       ELSE \E m \in Matching(th[t].pdf_hash) :
              /\ th' = Set(th, t, [th[t] EXCEPT !.pc = "ga_open", !.matching_index = m])
              /\ UNCHANGED hist
  /\ UNCHANGED <<now, verified, web, remote, vectorstores, dropped>>

\* lines 366-375: self.vectorstores[pdf_hash] = PineconeVectorStore(...)
GetAnswerOpen(t) ==
  /\ th[t].pc = "ga_open"
  /\ \E ok \in Outcomes : Spend(ok) /\
       IF ok /\ th[t].matching_index \in indexes
       THEN /\ vectorstores' = [vectorstores EXCEPT ![th[t].pdf_hash] = th[t].matching_index]
            /\ th' = Set(th, t, [th[t] EXCEPT !.pc = "ga_use", !.matching_index = NoName])
            /\ hist' = Set(hist, t, [hist[t] EXCEPT !.cache_writes = @ + 1,
                                                    !.expected = dropped[th[t].pdf_hash]])
       ELSE /\ th' = Set(th, t, Done(th[t], Failure("Failed to load vectorstore")))
            /\ hist' = Set(hist, t, [hist[t] EXCEPT !.fault = TRUE])
            /\ UNCHANGED vectorstores
  /\ UNCHANGED <<now, verified, web, remote, dropped>>

\* line 377: vectorstore = self.vectorstores[pdf_hash]; a KeyError is caught
\* at line 452
GetAnswerUse(t) ==
  /\ th[t].pc = "ga_use"
  /\ IF vectorstores[th[t].pdf_hash] # NoName
     THEN th' = Set(th, t, [th[t] EXCEPT !.pc = "ga_invoke",
                                         !.vectorstore = vectorstores[th[t].pdf_hash]])
     ELSE th' = Set(th, t, Caught(th[t], "Failed to generate answer"))
  /\ UNCHANGED <<budget, now, verified, web, remote, vectorstores, hist, dropped>>

\* lines 424-450: retrieval_chain.invoke: the similarity search on the handle's
\* index, then the model call; either may raise
GetAnswerInvoke(t) ==
  /\ th[t].pc = "ga_invoke"
  /\ \E ok \in Outcomes : Spend(ok) /\
       IF ok /\ th[t].vectorstore \in indexes \ terminating
       THEN /\ th' = Set(th, t, Done(th[t], Answered))
            /\ hist' = Set(hist, t, [hist[t] EXCEPT !.invokes = @ + 1])
       ELSE /\ th' = Set(th, t, Done(th[t], Failure("Failed to generate answer")))
            /\ hist' = Set(hist, t, [hist[t] EXCEPT !.invokes = @ + 1, !.fault = TRUE])
  /\ UNCHANGED <<now, verified, web, remote, vectorstores, dropped>>

\* the request ends, and its thread with it
Return(t) ==
  /\ th[t].pc = "done"
  /\ th' = Set(th, t, [Idle EXCEPT !.pc = "finished"])
  /\ hist' = Set(hist, t, NoHist)
  /\ UNCHANGED <<budget, now, verified, web, remote, vectorstores, dropped>>

----------------------------------------------------------------------------
(* is_pdf_processed (44-63). list_ok: list_indexes returns; failing: the   *)
(* candidates whose Index(...).describe_index_stats() raises.              *)

\* A check that looks for an index with exactly the name "pdf-{hash}", which
\* no index has.
is_pdf_processed_exact(pdf_hash, list_ok, failing) ==
  /\ list_ok
  /\ \E n \in Matching(pdf_hash) \ failing :
       /\ n = <<pdf_hash>>
       /\ total_vector_count[n] > 0

is_pdf_processed(pdf_hash, list_ok, failing) ==
  /\ list_ok
  /\ \E n \in Matching(pdf_hash) \ failing : total_vector_count[n] > 0

----------------------------------------------------------------------------
(* process_pdf_with_exponential_backoff (89-126).                          *)

\* A loop that does not look at result['success'].
BackoffStepIgnoresSuccess(attempt, success) ==
  IF attempt = max_attempts - 1 THEN "return" ELSE "sleep"

\* A loop that returns its own message once the attempts are used up.
BackoffReturnGeneric(result) ==
  IF result.success THEN result
  ELSE Failure("Failed after 5 attempts due to persistent errors")

\* lines 99-103: what the loop does with the result of attempt number
\* `attempt` (0-based)
BackoffStep(attempt, success) ==
  IF success THEN "return"
  ELSE IF attempt = max_attempts - 1 THEN "return"
  ELSE "sleep"

\* lines 100 and 103: return result
BackoffReturn(result) == result

\* A delay that grows by base_delay with each attempt.
BackoffDelayLinear(attempt) == base_delay * (attempt + 1)

\* line 106: the part of the delay that is not jitter
BackoffDelay(attempt) == base_delay * (2 ^ attempt)

\* line 106: random.uniform(0, 2), which is 0 + 2 * random() with random()
\* in [0, 1)
Jitter == 0..(2 * JitterSteps - 1)

\* The single attempt of thread locals s returned r.
AttemptEnds(s, r) ==
  IF BackoffStep(s.attempt, r.success) = "return"
  THEN Done(s, BackoffReturn(r))
  ELSE [s EXCEPT !.pc = "bo_sleep", !.slept_at = now, !.vs_attempt = 0]

AttemptEndsHist(g, s, r) ==
  [g EXCEPT !.last = r,
            !.succeeded_at = IF r.success /\ @ = 0 THEN g.attempts ELSE @,
            !.sleeps = IF BackoffStep(s.attempt, r.success) = "sleep" THEN @ + 1 ELSE @]

\* A population loop that gives up at the first failure.
PopulationGivesUpAtOnce(vs_attempt) == TRUE

\* line 271: if vs_attempt == vectorstore_attempts - 1
PopulationGivesUp(vs_attempt) == vs_attempt = vectorstore_attempts - 1

\* lines 269-276: a population try failed; time.sleep(15) before the next
VectorstoreFails(s) ==
  IF PopulationGivesUp(s.vs_attempt)
  THEN AttemptEnds(s, Failure("Failed to create vectorstore after 3 attempts"))
  ELSE [s EXCEPT !.pc = "sa_upsert", !.vs_attempt = @ + 1]

VectorstoreFailsHist(g, s) ==
  IF PopulationGivesUp(s.vs_attempt)
  THEN AttemptEndsHist(g, s, Failure("Failed to create vectorstore after 3 attempts"))
  ELSE [g EXCEPT !.vs_waited = @ + vectorstore_delay]

----------------------------------------------------------------------------
(* process_pdf (286-339).                                                  *)

\* An existence check behind a lock that a running process_pdf call holds.
ProcessCheckLocked(t) ==
  /\ th[t].pc = "idle"
  /\ \A u \in Threads \ {t} :
       th[u].op = "process" => th[u].pc \in {"done", "finished"}
  /\ \E h \in Hashes, f \in Files, list_ok \in Outcomes :
     \E failing \in (IF budget = 0 THEN {{}} ELSE SUBSET Matching(h)) :
       /\ Spend(list_ok /\ failing = {})
       /\ th' = Set(th, t, [Called("process", h, f) EXCEPT
                              !.pc = IF is_pdf_processed(h, list_ok, failing)
                                     THEN "pp_list" ELSE "sa_load"])
       /\ hist' = Set(hist, t, [NoHist EXCEPT
                                  !.had_vectors = (NonEmpty(h) \ terminating # {}),
                                  !.clean = /\ NonEmpty(h) \ terminating # {}
                                            /\ list_ok
                                            /\ failing = {}])
  /\ UNCHANGED <<now, verified, web, remote, vectorstores, dropped>>

\* line 294: if self.is_pdf_processed(pdf_hash)
ProcessCheck(t) ==
  /\ th[t].pc = "idle"
  /\ \E h \in Hashes, f \in Files, list_ok \in Outcomes :
     \E failing \in (IF budget = 0 THEN {{}} ELSE SUBSET Matching(h)) :
       /\ Spend(list_ok /\ failing = {})
       /\ th' = Set(th, t, [Called("process", h, f) EXCEPT
                              !.pc = IF is_pdf_processed(h, list_ok, failing)
                                     THEN "pp_list" ELSE "sa_load"])
       /\ hist' = Set(hist, t, [NoHist EXCEPT
                                  !.had_vectors = (NonEmpty(h) \ terminating # {}),
                                  !.clean = /\ NonEmpty(h) \ terminating # {}
                                            /\ list_ok
                                            /\ failing = {}])
  /\ UNCHANGED <<now, verified, web, remote, vectorstores, dropped>>

\* lines 298-304: list_indexes again and the first name with the prefix
ProcessList(t) ==
  /\ th[t].pc = "pp_list"
  /\ \E ok \in Outcomes : Spend(ok) /\
       IF ~ok
       THEN \* list_indexes raises: caught at line 333
            /\ th' = Set(th, t, Caught(th[t], "Critical processing failure"))
            /\ hist' = Set(hist, t, [hist[t] EXCEPT !.clean = FALSE])
       ELSE IF Matching(th[t].pdf_hash) = {}
       THEN /\ th' = Set(th, t, [th[t] EXCEPT !.pc = "sa_load"])
            /\ UNCHANGED hist
       ELSE \E m \in Matching(th[t].pdf_hash) :
              /\ th' = Set(th, t, [th[t] EXCEPT !.pc = "pp_open", !.matching_index = m])
              /\ UNCHANGED hist
  /\ UNCHANGED <<now, verified, web, remote, vectorstores, dropped>>

\* A process_pdf that puts the index in the cache before it has opened it.
ProcessOpenCachesFirst(t) ==
  /\ th[t].pc = "pp_open"
  /\ vectorstores' = [vectorstores EXCEPT ![th[t].pdf_hash] = th[t].matching_index]
  /\ dropped' = [dropped EXCEPT ![th[t].pdf_hash] = NoName]
  /\ \E ok \in Outcomes : Spend(ok) /\
       IF ok /\ th[t].matching_index \in indexes
       THEN /\ th' = Set(th, t, Done(th[t], AlreadyProcessed))
            /\ hist' = Set(hist, t, [hist[t] EXCEPT !.cache_writes = @ + 1, !.opened = TRUE])
       ELSE /\ th' = Set(th, t, [th[t] EXCEPT !.pc = "sa_load", !.matching_index = NoName])
            /\ hist' = Set(hist, t, [hist[t] EXCEPT !.clean = FALSE])
  /\ UNCHANGED <<now, verified, web, remote>>

\* lines 306-321: open the handle, cache it and return, or fall through
ProcessOpen(t) ==
  /\ th[t].pc = "pp_open"
  /\ \E ok \in Outcomes : Spend(ok) /\
       IF ok /\ th[t].matching_index \in indexes
       THEN /\ vectorstores' = [vectorstores EXCEPT ![th[t].pdf_hash] = th[t].matching_index]
            /\ dropped' = [dropped EXCEPT ![th[t].pdf_hash] = NoName]
            /\ th' = Set(th, t, Done(th[t], AlreadyProcessed))
            /\ hist' = Set(hist, t, [hist[t] EXCEPT !.cache_writes = @ + 1, !.opened = TRUE])
       ELSE /\ th' = Set(th, t, [th[t] EXCEPT !.pc = "sa_load", !.matching_index = NoName])
            /\ hist' = Set(hist, t, [hist[t] EXCEPT !.clean = FALSE])
            /\ UNCHANGED <<vectorstores, dropped>>
  /\ UNCHANGED <<now, verified, web, remote>>

----------------------------------------------------------------------------
(* _process_pdf_single_attempt (128-284).                                  *)

\* A single attempt that looks at the chunks only after it has made the index.
SingleAttemptLoadSplitsLate(t) ==
  /\ th[t].pc = "sa_load"
  /\ LET s == [th[t] EXCEPT !.index_name = IndexName(th[t].pdf_hash, now),
                            !.vs_attempt = 0, !.delay = 0,
                            !.elapsed = 0, !.index_stats = ""]
         g == [hist[t] EXCEPT !.attempts = @ + 1,
                              !.last = NoResult,
                              !.tries = 0, !.vs_waited = 0,
                              !.made_index = FALSE,
                              !.prev_index = IF hist[t].made_index
                                             THEN th[t].index_name ELSE @]
         r == CASE s.file = "unreadable" -> Failure("Failed to load PDF document")
                [] s.file = "nocontent" -> Failure("No content could be extracted from the PDF")
                [] s.file = "nochunks" -> Failure("No text chunks could be created")
                [] OTHER -> NoResult
     IN IF s.file \in {"ok", "nochunks"}
        THEN /\ th' = Set(th, t, [s EXCEPT !.pc = "sa_cleanup"])
             /\ hist' = Set(hist, t, g)
        ELSE /\ th' = Set(th, t, AttemptEnds(s, r))
             /\ hist' = Set(hist, t, AttemptEndsHist(g, s, r))
  /\ UNCHANGED <<budget, now, verified, web, remote, vectorstores, dropped>>

\* lines 132-201: the timestamp, the loader, the splitter and the sanitizer,
\* all local
SingleAttemptLoad(t) ==
  /\ th[t].pc = "sa_load"
  /\ LET s == [th[t] EXCEPT !.index_name = IndexName(th[t].pdf_hash, now),
                            !.vs_attempt = 0, !.delay = 0,
                            !.elapsed = 0, !.index_stats = ""]
         g == [hist[t] EXCEPT !.attempts = @ + 1,
                              !.last = NoResult,
                              !.tries = 0, !.vs_waited = 0,
                              !.made_index = FALSE,
                              !.prev_index = IF hist[t].made_index
                                             THEN th[t].index_name ELSE @]
         r == CASE s.file = "unreadable" -> Failure("Failed to load PDF document")
                [] s.file = "nocontent" -> Failure("No content could be extracted from the PDF")
                [] s.file = "nochunks" -> Failure("No text chunks could be created")
                [] OTHER -> NoResult
     IN IF s.file = "ok"
        THEN /\ th' = Set(th, t, [s EXCEPT !.pc = "sa_cleanup"])
             /\ hist' = Set(hist, t, g)
        ELSE /\ th' = Set(th, t, AttemptEnds(s, r))
             /\ hist' = Set(hist, t, AttemptEndsHist(g, s, r))
  /\ UNCHANGED <<budget, now, verified, web, remote, vectorstores, dropped>>

\* cleanup_existing_index, line 68: if self.pc.has_index(index_name). The
\* local `cleanup` is what the call returns to line 207: "True", "False", or
\* "None" when the function ends without a return statement.
CleanupCheck(t) ==
  /\ th[t].pc = "sa_cleanup"
  /\ \E ok \in Outcomes :
       /\ Spend(ok)
       /\ th' = Set(th, t,
            IF ok /\ th[t].index_name \in indexes
            THEN [th[t] EXCEPT !.pc = "cl_delete"]
            ELSE [th[t] EXCEPT !.pc = "sa_create",
                               !.cleanup = IF ok THEN "None" ELSE "False"])
  /\ UNCHANGED <<now, verified, web, remote, vectorstores, hist, dropped>>

\* cleanup_existing_index, line 70: self.pc.delete_index(index_name); the
\* service drops the vectors at once and the name some time later
CleanupDelete(t) ==
  /\ th[t].pc = "cl_delete"
  /\ \E ok \in Outcomes : Spend(ok) /\
       IF ok /\ th[t].index_name \in indexes
       THEN /\ terminating' = terminating \cup {th[t].index_name}
            /\ total_vector_count' =
                 [total_vector_count EXCEPT ![th[t].index_name] = 0]
            /\ th' = Set(th, t, [th[t] EXCEPT !.pc = "cl_poll", !.wait_time = 0])
            /\ hist' = Set(hist, t, [hist[t] EXCEPT !.mutated = TRUE])
       ELSE /\ th' = Set(th, t, [th[t] EXCEPT !.pc = "sa_create", !.cleanup = "False"])
            /\ hist' = Set(hist, t, [hist[t] EXCEPT !.mutated = TRUE])
            /\ UNCHANGED <<terminating, total_vector_count>>
  /\ UNCHANGED <<now, verified, web, indexes, vectorstores, dropped>>

\* cleanup_existing_index, lines 75-87: the loop that waits for the deletion,
\* as a whole. It only reads the service, and it ends when the index is gone,
\* when has_index raises, or after 90 seconds, so it can end at any time;
\* whatever it returns, line 207 drops.
CleanupWait(t) ==
  /\ th[t].pc = "cl_poll"
  /\ \E gone \in {th[t].index_name \notin indexes, FALSE} :
       th' = Set(th, t, [th[t] EXCEPT !.pc = "sa_create",
                                      !.cleanup = IF gone THEN "True" ELSE "False"])
  /\ UNCHANGED <<budget, now, verified, web, remote, vectorstores, hist, dropped>>

\* A count of the seconds slept that starts again before it reaches max_wait.
CleanupWraps(wait_time) == (wait_time + cleanup_poll) % cleanup_max_wait

\* lines 79-80: time.sleep(5); wait_time += 5
CleanupWaited(wait_time) == wait_time + cleanup_poll

\* line 75: while wait_time < max_wait, left
CleanupExpired(wait_time) == ~(wait_time < cleanup_max_wait)

\* cleanup_existing_index, lines 75-87: one round of the loop that waits for
\* the deletion
CleanupPoll(t) ==
  /\ th[t].pc = "cl_poll"
  /\ IF CleanupExpired(th[t].wait_time)
     THEN \* lines 83-84
          /\ th' = Set(th, t, [th[t] EXCEPT !.pc = "sa_create", !.cleanup = "False"])
          /\ UNCHANGED budget
     ELSE \E ok \in Outcomes :
          /\ Spend(ok)
          /\ th' = Set(th, t,
               IF ~ok
               THEN \* has_index raises: lines 85-87
                    [th[t] EXCEPT !.pc = "sa_create", !.cleanup = "False"]
               ELSE IF th[t].index_name \notin indexes
               THEN \* lines 76-78
                    [th[t] EXCEPT !.pc = "sa_create", !.cleanup = "True"]
               ELSE [th[t] EXCEPT !.wait_time = CleanupWaited(@)])
  /\ UNCHANGED <<now, verified, web, remote, vectorstores, hist, dropped>>

\* lines 209-216: self.pc.create_index(name=index_name, ...)
CreateIndex(t) ==
  /\ th[t].pc = "sa_create"
  /\ \E ok \in Outcomes : Spend(ok) /\
       IF ok /\ th[t].index_name \notin indexes /\ Cardinality(indexes) < MaxIndexes
       THEN /\ indexes' = indexes \cup {th[t].index_name}
            /\ total_vector_count' = [total_vector_count EXCEPT ![th[t].index_name] = 0]
            /\ th' = Set(th, t, [th[t] EXCEPT !.pc = "sa_ready", !.cleanup = "",
                                              !.wait_time = 0, !.elapsed = 0])
            /\ hist' = Set(hist, t, [hist[t] EXCEPT !.mutated = TRUE,
                                                    !.made_index = TRUE])
       ELSE LET r == Failure("Failed to create Pinecone index")
                g == [hist[t] EXCEPT !.mutated = TRUE]
                s == [th[t] EXCEPT !.cleanup = "", !.wait_time = 0]
            IN /\ th' = Set(th, t, AttemptEnds(s, r))
               /\ hist' = Set(hist, t, AttemptEndsHist(g, th[t], r))
               /\ UNCHANGED <<indexes, total_vector_count>>
  /\ UNCHANGED <<now, verified, web, terminating, vectorstores, dropped>>

\* lines 218-240: the loop that waits for the index to be ready, as a whole.
\* It only reads the service, and it ends at the first check that finds the
\* index ready, or with the timeout of line 234.
ReadyWait(t) ==
  /\ th[t].pc = "sa_ready"
  /\ \E ready \in Outcomes : Spend(ready) /\
       IF ready /\ th[t].index_name \in indexes \ terminating
       THEN /\ th' = Set(th, t, [th[t] EXCEPT !.pc = "sa_upsert", !.vs_attempt = 0])
            /\ UNCHANGED hist
       ELSE LET r == Failure("Failed to create Pinecone index: timeout")
            IN /\ th' = Set(th, t, AttemptEnds(th[t], r))
               /\ hist' = Set(hist, t, AttemptEndsHist(hist[t], th[t], r))
  /\ UNCHANGED <<now, verified, web, remote, vectorstores, dropped>>

\* A wait that gives up after the first sleep.
ReadyTimedOutEarly(elapsed) == ~(elapsed < ready_poll)

\* line 223: while time.time() - start_time < max_wait, left
ReadyTimedOut(elapsed) == ~(elapsed < ready_max_wait)

\* lines 223-240: one round of the loop that waits for the index to be
\* ready. `elapsed` is time.time() - start_time, `index_stats` what the last
\* describe_index call showed: "ready", "pending", or "raised".
ReadyPoll(t) ==
  /\ th[t].pc = "sa_ready"
  /\ IF ReadyTimedOut(th[t].elapsed)
     THEN \* lines 233-240
          LET r == Failure("Failed to create Pinecone index: timeout")
          IN /\ th' = Set(th, t, AttemptEnds(th[t], r))
             /\ hist' = Set(hist, t, AttemptEndsHist(hist[t], th[t], r))
             /\ UNCHANGED budget
     ELSE \E ok \in Outcomes, ready \in BOOLEAN :
          /\ Spend(ok)
          /\ UNCHANGED hist
          /\ th' = Set(th, t,
               IF ~ok \/ th[t].index_name \notin indexes
               THEN \* lines 229-232
                    [th[t] EXCEPT !.index_stats = "raised", !.elapsed = @ + ready_poll]
               ELSE IF ready /\ th[t].index_name \notin terminating
               THEN \* lines 226-228
                    [th[t] EXCEPT !.pc = "sa_upsert", !.vs_attempt = 0,
                                  !.index_stats = "ready"]
               ELSE \* line 232
                    [th[t] EXCEPT !.index_stats = "pending", !.elapsed = @ + ready_poll])
  /\ UNCHANGED <<now, verified, web, remote, vectorstores, dropped>>

\* lines 250-254: PineconeVectorStore.from_documents: embed and upsert the
\* chunks; a try that raises may have upserted some of them
Upsert(t) ==
  /\ th[t].pc = "sa_upsert"
  /\ \E ok \in Outcomes : Spend(ok) /\
       IF ok /\ th[t].index_name \in indexes \ terminating
       THEN /\ total_vector_count' =
                 [total_vector_count EXCEPT ![th[t].index_name] = @ + NumChunks]
            /\ th' = Set(th, t, [th[t] EXCEPT !.pc = "sa_verify", !.elapsed = 0,
                                              !.index_stats = ""])
            /\ hist' = Set(hist, t, [hist[t] EXCEPT !.tries = @ + 1,
                                                    !.all_tries = @ + 1])
       ELSE /\ \E k \in 0..(NumChunks - 1) :
                 total_vector_count' =
                   IF th[t].index_name \in indexes \ terminating
                   THEN [total_vector_count EXCEPT ![th[t].index_name] = @ + k]
                   ELSE total_vector_count
            /\ th' = Set(th, t, VectorstoreFails([th[t] EXCEPT !.elapsed = 0,
                                                                !.index_stats = ""]))
            /\ hist' = Set(hist, t,
                 VectorstoreFailsHist([hist[t] EXCEPT !.tries = @ + 1,
                                                      !.all_tries = @ + 1], th[t]))
  /\ UNCHANGED <<now, verified, web, indexes, terminating, vectorstores, dropped>>

\* lines 256-267: the verification search, the cache entry and the result
Verify(t) ==
  /\ th[t].pc = "sa_verify"
  /\ \E ok \in Outcomes : Spend(ok) /\
       IF ok /\ th[t].index_name \in indexes \ terminating
       THEN LET r == Processed(NumChunks, th[t].index_name)
                g == [hist[t] EXCEPT !.cache_writes = @ + 1]
            IN /\ vectorstores' = [vectorstores EXCEPT ![th[t].pdf_hash] = th[t].index_name]
               /\ dropped' = [dropped EXCEPT ![th[t].pdf_hash] = NoName]
               /\ th' = Set(th, t, AttemptEnds(th[t], r))
               /\ hist' = Set(hist, t, AttemptEndsHist(g, th[t], r))
               /\ verified' = verified \cup {th[t].index_name}
       ELSE /\ th' = Set(th, t, VectorstoreFails(th[t]))
            /\ hist' = Set(hist, t, VectorstoreFailsHist(hist[t], th[t]))
            /\ UNCHANGED <<vectorstores, dropped, verified>>
  /\ UNCHANGED <<now, web, remote>>

\* lines 94 and 109: time.sleep(delay) ends and the loop goes on; after the
\* last round the loop ends and line 123 returns
BackoffWake(t) ==
  /\ th[t].pc = "bo_sleep"
  /\ now > th[t].slept_at
  /\ \E jitter \in Jitter :
       th' = Set(th, t,
         IF th[t].attempt + 1 < max_attempts
         THEN [th[t] EXCEPT !.pc = "sa_load", !.attempt = @ + 1, !.slept_at = 0,
                            !.delay = BackoffDelay(th[t].attempt) * JitterSteps + jitter]
         ELSE Done(th[t], Failure("Failed after 5 attempts due to persistent errors")))
  /\ UNCHANGED <<budget, now, verified, web, remote, vectorstores, hist, dropped>>

----------------------------------------------------------------------------
\* A step of a request that asks a question.
AskStep(t) ==
  \/ GetAnswerCheck(t)
  \/ GetAnswerList(t)
  \/ GetAnswerOpen(t)
  \/ GetAnswerUse(t)
  \/ GetAnswerInvoke(t)
  \/ Return(t)

\* A step of a request that processes a document.
ProcessStep(t) ==
  \/ ProcessCheck(t)
  \/ ProcessList(t)
  \/ ProcessOpen(t)
  \/ SingleAttemptLoad(t)
  \/ CleanupCheck(t)
  \/ CleanupDelete(t)
  \/ CleanupWait(t)
  \/ CreateIndex(t)
  \/ ReadyWait(t)
  \/ Upsert(t)
  \/ Verify(t)
  \/ BackoffWake(t)
  \/ Return(t)

Step(t) == AskStep(t) \/ ProcessStep(t)

\* The requests start in the order of their numbers.
InOrder(t) == \A u \in Threads : u < t => th[u].pc # "idle"

\* No other request is being served.
Alone(t) == \A u \in Threads \ {t} : th[u].pc \in {"idle", "finished"}

\* Several requests, one after the other.
Next ==
  \/ \E t \in Threads : InOrder(t) /\ Alone(t) /\ Step(t) /\ UNCHANGED call
  \/ Tick(MaxSessionTime)
  \/ DeletionCompletes
  \/ ClearCache

Spec == Init /\ [][Next]_vars

\* Several requests at once.
NextConcurrent ==
  \/ \E t \in Threads : InOrder(t) /\ Step(t) /\ UNCHANGED call
  \/ Tick(MaxSessionTime)
  \/ DeletionCompletes
  \/ ClearCache

SpecConcurrent == Init /\ [][NextConcurrent]_vars

\* Several requests to process a document at once.
NextProcessing ==
  \/ \E t \in Threads : InOrder(t) /\ ProcessStep(t) /\ UNCHANGED call
  \/ Tick(MaxSessionTime)
  \/ DeletionCompletes

SpecProcessing == Init /\ [][NextProcessing]_vars

\* One request to process a document, followed through all its retries; the
\* service may hold an index that an earlier run of the server left, and any
\* number of its calls may raise.
InitRetry ==
  /\ Fresh
  /\ indexes \in SUBSET {IndexName(h, 0) : h \in Hashes}
  /\ \E c \in {0, NumChunks} :
       total_vector_count = [n \in Names |-> IF n \in indexes THEN c ELSE 0]
  /\ budget = Unlimited

First(t) == \A u \in Threads : t <= u

NextRetry ==
  \/ \E t \in Threads : First(t) /\ ProcessStep(t) /\ UNCHANGED call
  \/ Tick(MaxTime)
  \/ DeletionCompletes

SpecRetry == InitRetry /\ [][NextRetry]_vars

\* A step of a request that processes a document, the two waiting loops
\* taken one round at a time.
PollingStep(t) ==
  \/ ProcessCheck(t)
  \/ ProcessList(t)
  \/ ProcessOpen(t)
  \/ SingleAttemptLoad(t)
  \/ CleanupCheck(t)
  \/ CleanupDelete(t)
  \/ CleanupPoll(t)
  \/ CreateIndex(t)
  \/ ReadyPoll(t)
  \/ Upsert(t)
  \/ Verify(t)
  \/ BackoffWake(t)
  \/ Return(t)

\* time.sleep(delay), lines 109 and 121: the seconds pass while the request
\* sleeps
SleepTick ==
  /\ now < MaxTime
  /\ \E t \in Threads : th[t].pc = "bo_sleep" /\ th[t].slept_at = now
  /\ now' = now + 1
  /\ UNCHANGED <<call, verified, web, budget, remote, vectorstores, th, hist, dropped>>

Serve == \E t \in Threads : First(t) /\ PollingStep(t) /\ UNCHANGED call

\* One request to process a document, followed through every round of its
\* loops: the server runs the request as long as it has a step to take, and
\* a sleep ends.
NextPolling ==
  \/ Serve
  \/ SleepTick
  \/ DeletionCompletes

SpecPolling ==
  InitRetry /\ [][NextPolling]_vars /\ WF_vars(Serve) /\ WF_vars(SleepTick)

\* Several requests, one after the other, while any number of remote calls
\* may raise.
InitAnyFault ==
  /\ Fresh
  /\ indexes = {}
  /\ total_vector_count = [n \in Names |-> 0]
  /\ budget = Unlimited

SpecAnyFault == InitAnyFault /\ [][Next]_vars

\* Requests to process a document, one after the other, each followed
\* through all its retries, while any number of remote calls may raise.
NextRerun ==
  \/ \E t \in Threads : InOrder(t) /\ Alone(t) /\ ProcessStep(t) /\ UNCHANGED call
  \/ Tick(MaxTime)
  \/ DeletionCompletes

SpecRerun == InitAnyFault /\ [][NextRerun]_vars

\* Questions only, one after the other, about a document that an earlier run
\* of the server may have indexed.
InitAsking ==
  /\ Fresh
  /\ indexes \in SUBSET {IndexName(h, 0) : h \in Hashes}
  /\ \E c \in {0, NumChunks} :
       total_vector_count = [n \in Names |-> IF n \in indexes THEN c ELSE 0]
  /\ budget = MaxFaults

NextAsking ==
  \/ \E t \in Threads : InOrder(t) /\ Alone(t) /\ AskStep(t) /\ UNCHANGED call
  \/ ClearCache

SpecAsking == InitAsking /\ [][NextAsking]_vars

----------------------------------------------------------------------------
(* The routes of src/app.py, for the requests of one session, sent one     *)
(* after the other. A request that is turned away before it touches the    *)
(* session or the processor (a failed validation at lines 111-123, 197,    *)
(* 297-307, a processor that cannot be built at 203-210 and 313-319, a     *)
(* missing file at 220-224) changes nothing: it is a stuttering step.      *)

\* No request is being served.
Quiet == \A t \in Threads : th[t].pc \in {"idle", "finished"}

\* rag_processor.vectorstores.clear(), lines 132-135 and 404-407
Clear ==
  /\ dropped' = [h \in Hashes |->
                   IF vectorstores[h] # NoName THEN vectorstores[h] ELSE dropped[h]]
  /\ vectorstores' = [h \in Hashes |-> NoName]

\* An upload that leaves the keys of the old session in place.
UploadFileKeepsSession ==
  /\ Quiet
  /\ Clear
  /\ \E saved \in BOOLEAN, h \in Hashes :
       /\ session' = IF saved THEN [session EXCEPT !.pdf_hash = h] ELSE session
       /\ succeeded' = ""
  /\ UNCHANGED <<call, budget, now, verified, remote, th, hist>>

\* upload_file, lines 125-167, for a request that passed the validation:
\* session.clear(), the cache clear, then either a failure to save or to
\* hash the file (lines 146-160) or the new session keys (163-167)
UploadFile ==
  /\ Quiet
  /\ Clear
  /\ \E saved \in BOOLEAN, h \in Hashes :
       /\ session' = IF saved THEN [pdf_hash |-> h, is_processed |-> FALSE]
                               ELSE NoSession
       /\ succeeded' = ""
  /\ UNCHANGED <<call, budget, now, verified, remote, th, hist>>

\* reset_session, lines 396-407
ResetSession ==
  /\ Quiet
  /\ session # NoSession
  /\ Clear
  /\ session' = NoSession
  /\ succeeded' = ""
  /\ UNCHANGED <<call, budget, now, verified, remote, th, hist>>

\* process_pdf (the route), lines 197 and 213-227: the guard, and the call
\* of processor.process_pdf with the hash of the session
ProcessPdfRoute(t) ==
  /\ session.pdf_hash # ""
  /\ ProcessCheck(t)
  /\ th'[t].pdf_hash = session.pdf_hash

\* process_pdf (the route), lines 229-230 and on: the flag is set when the
\* result says success, and the response is sent
ProcessPdfResponds(t) ==
  /\ th[t].pc = "done"
  /\ th[t].op = "process"
  /\ session' = IF th[t].result.success
                 THEN [session EXCEPT !.is_processed = TRUE] ELSE session
  /\ succeeded' = IF th[t].result.success THEN th[t].pdf_hash ELSE succeeded
  /\ th' = Set(th, t, Idle)
  /\ hist' = Set(hist, t, NoHist)
  /\ UNCHANGED <<budget, now, verified, remote, vectorstores, dropped>>

\* ask_question, lines 297 and 321-322: the guard, and the call of
\* processor.get_answer with the hash of the session
AskQuestion(t) ==
  /\ session.pdf_hash # ""
  /\ session.is_processed
  /\ GetAnswerCheck(t)
  /\ th'[t].pdf_hash = session.pdf_hash

\* ask_question, lines 326-361: the response is sent; the keys this model
\* keeps of the session stay as they are
AskQuestionResponds(t) ==
  /\ th[t].pc = "done"
  /\ th[t].op = "ask"
  /\ th' = Set(th, t, Idle)
  /\ hist' = Set(hist, t, NoHist)
  /\ UNCHANGED <<budget, now, verified, web, remote, vectorstores, dropped>>

\* A step of the processor inside a request.
InsideStep(t) ==
  \/ GetAnswerList(t)
  \/ GetAnswerOpen(t)
  \/ GetAnswerUse(t)
  \/ GetAnswerInvoke(t)
  \/ ProcessList(t)
  \/ ProcessOpen(t)
  \/ SingleAttemptLoad(t)
  \/ CleanupCheck(t)
  \/ CleanupDelete(t)
  \/ CleanupWait(t)
  \/ CreateIndex(t)
  \/ ReadyWait(t)
  \/ Upsert(t)
  \/ Verify(t)
  \/ BackoffWake(t)

RouteStep(t) ==
  \/ ProcessPdfRoute(t)
  \/ ProcessPdfResponds(t)
  \/ AskQuestion(t)
  \/ AskQuestionResponds(t)
  \/ InsideStep(t)

NextSession ==
  \/ \E t \in Threads : InOrder(t) /\ Alone(t) /\ RouteStep(t) /\ UNCHANGED call
  \/ ResetSession
  \/ UploadFile
  \/ Tick(MaxSessionTime)
  \/ DeletionCompletes

SpecSession == Init /\ [][NextSession]_vars

----------------------------------------------------------------------------
(* The local functions, applied on their own to arguments drawn from       *)
(* bounded sets, one application to a behaviour.                           *)

SeqsUpTo(S, n) == UNION {[1..k -> S] : k \in 0..n}

\* The service and the server stay as they are meanwhile.
Aside ==
  UNCHANGED <<now, verified, web, remote, vectorstores, th, hist, dropped, budget>>

\* is_pdf_processed (44-63) as the loop it is. An entry of the listing is an
\* index: its name, whether Index(name).describe_index_stats() returns, and
\* the count it then reports.
OtherHash == "ffffffff"

Listed ==
  [name : (Hashes \cup {OtherHash}) \X {0},
   accessible : BOOLEAN,
   total_vector_count : 0..NumChunks]

RECURSIVE ScanIndexesAbort(_, _)
\* A scan that the first error ends.
ScanIndexesAbort(all_indexes, pdf_hash) ==
  IF all_indexes = <<>> THEN FALSE
  ELSE LET index_info == Head(all_indexes)
       IN IF ~StartsWith(index_info.name, pdf_hash)
          THEN ScanIndexesAbort(Tail(all_indexes), pdf_hash)
          ELSE IF ~index_info.accessible THEN FALSE
          ELSE IF index_info.total_vector_count > 0 THEN TRUE
          ELSE ScanIndexesAbort(Tail(all_indexes), pdf_hash)

RECURSIVE ScanIndexes(_, _)
\* lines 49-60: for index_info in all_indexes
ScanIndexes(all_indexes, pdf_hash) ==
  IF all_indexes = <<>> THEN FALSE
  ELSE LET index_info == Head(all_indexes)
       IN IF ~StartsWith(index_info.name, pdf_hash)
          THEN ScanIndexes(Tail(all_indexes), pdf_hash)
          ELSE IF ~index_info.accessible
          THEN ScanIndexes(Tail(all_indexes), pdf_hash)    \* lines 57-59
          ELSE IF index_info.total_vector_count > 0 THEN TRUE
          ELSE ScanIndexes(Tail(all_indexes), pdf_hash)

\* lines 46-48 and 61-63: list_indexes returns all_indexes, or raises
IsPdfProcessed(list_ok, all_indexes, pdf_hash) ==
  IF list_ok THEN ScanIndexes(all_indexes, pdf_hash) ELSE FALSE

ApplyIsPdfProcessed ==
  /\ call = NoCall
  /\ \E list_ok \in BOOLEAN, all_indexes \in SeqsUpTo(Listed, MaxListed),
        pdf_hash \in Hashes :
       call' = [fn |-> "is_pdf_processed", list_ok |-> list_ok,
                all_indexes |-> all_indexes, pdf_hash |-> pdf_hash,
                value |-> IsPdfProcessed(list_ok, all_indexes, pdf_hash)]
  /\ Aside

\* A Python str is kept as the sequence of its characters.
Min(a, b) == IF a < b THEN a ELSE b

\* s[:n]
Take(s, n) == SubSeq(s, 1, Min(n, Len(s)))

Ellipsis == <<".", ".", ".">>

\* A text of n characters that starts with "T" and ends with "z".
Text(n) ==
  [i \in 1..n |-> IF i = 1 THEN "T" ELSE IF i = n THEN "z" ELSE "a"]

Texts == {Text(n) : n \in (excerpt_length - Margin)..(excerpt_length + Margin)}

\* response['context']: the chunks the retriever returns, at most k = 5
\* (line 426); the metadata of a chunk is its rank.
Contexts ==
  {[i \in 1..Len(texts) |-> [page_content |-> texts[i], metadata |-> i]] :
     texts \in SeqsUpTo(Texts, retriever_k)}

\* line 436: doc.page_content[:200] + "..."
Excerpt(page_content) == Take(page_content, excerpt_length) \o Ellipsis

\* lines 432-438: sources
Sources(has_context, context) ==
  IF has_context
  THEN LET docs == Take(context, max_sources)
       IN [i \in 1..Len(docs) |->
             [content |-> Excerpt(docs[i].page_content),
              metadata |-> docs[i].metadata]]
  ELSE <<>>

ApplySources ==
  /\ call = NoCall
  /\ \E has_context \in BOOLEAN, context \in Contexts :
       call' = [fn |-> "sources", has_context |-> has_context,
                context |-> context,
                value |-> Sources(has_context, context)]
  /\ Aside

\* sanitize_metadata (175-199). A Python value is kept with its type: a str
\* with its characters `s`, a number with its decimal text `s`, a list of
\* str with its `items`, and any other object with what str() and
\* json.dumps() make of it (`s`, `json`), whether json.dumps() accepts it at
\* all, and its truth value.
PyStr(s) ==
  [type |-> "str", s |-> s, items |-> <<>>, json |-> <<>>,
   serializable |-> TRUE, truthy |-> s # <<>>]

PyNum(s) ==
  [type |-> "num", s |-> s, items |-> <<>>, json |-> s,
   serializable |-> TRUE, truthy |-> s # <<"0">>]

PyList(items) ==
  [type |-> "list", s |-> <<>>, items |-> items, json |-> <<>>,
   serializable |-> TRUE, truthy |-> items # <<>>]

PyOther(s, json, serializable, truthy) ==
  [type |-> "other", s |-> s, items |-> <<>>, json |-> json,
   serializable |-> serializable, truthy |-> truthy]

\* json.dumps of a character: the quote and the backslash get a backslash
EscapeChar(c) == IF c \in {"\"", "\\"} THEN <<"\\", c>> ELSE <<c>>

RECURSIVE Escape(_)
\* json.dumps of the characters of a str, half by half
Escape(s) ==
  IF s = <<>> THEN <<>>
  ELSE IF Len(s) = 1 THEN EscapeChar(s[1])
  ELSE LET half == Len(s) \div 2
       IN Escape(SubSeq(s, 1, half)) \o Escape(SubSeq(s, half + 1, Len(s)))

JsonString(s) == <<"\"">> \o Escape(s) \o <<"\"">>

RECURSIVE JsonItems(_)
JsonItems(items) ==
  IF items = <<>> THEN <<>>
  ELSE JsonString(Head(items))
         \o (IF Len(items) > 1 THEN <<",", " ">> ELSE <<>>)
         \o JsonItems(Tail(items))

\* json.dumps(v), for a v it accepts
JsonDumps(v) ==
  CASE v.type = "str" -> JsonString(v.s)
    [] v.type = "num" -> v.s
    [] v.type = "list" -> <<"[">> \o JsonItems(v.items) \o <<"]">>
    [] OTHER -> v.json

\* str(v), for a v that line 194 gets: neither str, number nor list of str
Str(v) == v.s

\* line 185: json.dumps(v) raises TypeError
Raises(k, v) == k = "dl_meta" /\ v.truthy /\ ~v.serializable

\* lines 184-194: the value kept for key k
SanitizeValue(k, v) ==
  IF k = "dl_meta"
  THEN IF v.truthy THEN PyStr(Take(JsonDumps(v), dl_meta_limit)) ELSE PyStr(<<>>)
  ELSE IF v.type \in {"str", "num"}
  THEN IF v.type = "str" /\ Len(v.s) > string_limit
       THEN PyStr(Take(v.s, string_limit) \o Ellipsis)
       ELSE v
  ELSE IF v.type = "list"
  THEN PyList(Take(v.items, list_limit))
  ELSE IF v.truthy THEN PyStr(Take(Str(v), other_limit)) ELSE PyStr(<<>>)

\* A dict is kept as the sequence of its items, in insertion order.
Keys(d) == {d[i][1] : i \in 1..Len(d)}

Get(d, k) == (CHOOSE i \in 1..Len(d) : d[i][1] = k)

\* d[k] = v
Put(d, k, v) ==
  IF k \in Keys(d) THEN [d EXCEPT ![Get(d, k)] = <<k, v>>]
  ELSE Append(d, <<k, v>>)

\* d1 == d2 does not look at the order
AsMapping(d) == {d[i] : i \in 1..Len(d)}

RECURSIVE SanitizeItems(_, _)
\* lines 182-196: for k, v in doc.metadata.items(), inside one try
SanitizeItems(items, clean_meta) ==
  IF items = <<>> THEN clean_meta
  ELSE LET k == Head(items)[1]
           v == Head(items)[2]
       IN IF Raises(k, v)
          THEN clean_meta    \* lines 195-196: the except is outside the loop
          ELSE SanitizeItems(Tail(items), Put(clean_meta, k, SanitizeValue(k, v)))

pdf_name == <<"a", ".", "p", "d", "f">>

HashChars == <<"0", "a", "1", "b", "2", "c", "3", "d">>

\* str(uuid.uuid4()), as far as the hyphen
Uuids ==
  {<<"1", "f", "2", "e", "3", "d", "4", "c", "-">>,
   <<"9", "a", "8", "b", "7", "c", "6", "d", "-">>}

\* lines 176-199
SanitizeMetadata(metadata, uuid) ==
  SanitizeItems(metadata,
    << <<"pdf_hash", PyStr(HashChars)>>,
       <<"pdf_name", PyStr(pdf_name)>>,
       <<"chunk_id", PyStr(Take(uuid, chunk_id_length))>> >>)

\* The values a loader may put into the metadata of a chunk: a short and a
\* long str, a number, a list of str, a dict, a long dict, None, and a set.
MetaValues ==
  {PyStr(<<"p", "\"", "1">>),
   PyStr(Text(string_limit + 1)),
   PyNum(<<"7">>),
   PyList([i \in 1..(list_limit + 1) |-> <<"x">>]),
   PyOther(<<"{", "'", "a", "'", ":", " ", "1", "}">>,
           <<"{", "\"", "a", "\"", ":", " ", "1", "}">>, TRUE, TRUE),
   PyOther(Text(other_limit + 1), Text(dl_meta_limit + 1), TRUE, TRUE),
   PyOther(<<"N", "o", "n", "e">>, <<"n", "u", "l", "l">>, TRUE, FALSE),
   PyOther(<<"{", "1", "}">>, <<>>, FALSE, TRUE)}

MetaKeys == {"dl_meta", "source", "page"}

\* doc.metadata before it is sanitized
Metadatas ==
  {m \in SeqsUpTo(MetaKeys \X MetaValues, MaxFields) :
     \A i, j \in 1..Len(m) : i # j => m[i][1] # m[j][1]}

\* sanitize_metadata(doc), and sanitize_metadata of what it returned
ApplySanitizeMetadata ==
  /\ call = NoCall
  /\ \E metadata \in Metadatas, uuid \in Uuids, again \in Uuids :
       LET once == SanitizeMetadata(metadata, uuid)
       IN call' = [fn |-> "sanitize_metadata", metadata |-> metadata,
                   once |-> once, twice |-> SanitizeMetadata(once, again)]
  /\ Aside

\* get_pdf_hash (src/app.py 45-52) and the part of upload_file that leads to
\* it (138-165). The bytes of a file are numbers below 256.
Contents == {<<37, 80, 68, 70>>, <<37, 80, 68, 70, 10>>, <<>>}

Filenames == {"a.pdf", "b.pdf"}

PathUuids == {"u1", "u2"}

Sessions == {"s1", "s2"}

HexDigits ==
  <<"0", "1", "2", "3", "4", "5", "6", "7",
    "8", "9", "a", "b", "c", "d", "e", "f">>

RECURSIVE Mix(_)
\* hashlib.md5 is not computed here: a checksum of the bytes stands for it,
\* like it a function of the bytes read and of nothing else.
Mix(bytes) ==
  IF bytes = <<>> THEN 5381
  ELSE (Mix(SubSeq(bytes, 1, Len(bytes) - 1)) * 33 + bytes[Len(bytes)]) % 65521

\* hashlib.md5(data).hexdigest(): 32 hexadecimal digits
HexDigest(data) ==
  [i \in 1..32 |-> HexDigits[((((Mix(data) + 1) * i) \div 7) % 16) + 1]]

\* line 140: os.path.join(UPLOAD_FOLDER, f"{uuid.uuid4()}_{filename}")
FilePath(uuid, filename) == <<uuid, filename>>

\* A hash that is taken of the path of the file, not of what it holds.
GetPdfHashOfPath(folder, file_path) ==
  Take(HexDigest(<<Len(file_path[1]), Len(file_path[2]),
                   IF file_path[1] = "u1" THEN 1 ELSE 2,
                   IF file_path[2] = "a.pdf" THEN 1 ELSE 2>>), hash_length)

\* lines 48-49: hashlib.md5(f.read()).hexdigest()[:8]; folder is the upload
\* folder, a file path mapped to the bytes stored there
GetPdfHash(folder, file_path) ==
  Take(HexDigest(folder[file_path]), hash_length)

\* lines 138-165: the file is saved under a fresh path and hashed there; the
\* session gets the path, the name and the hash
Uploaded(session_id, filename, uuid, bytes) ==
  LET file_path == FilePath(uuid, filename)
      folder == [q \in {file_path} |-> bytes]
  IN [session_id |-> session_id, bytes |-> bytes,
      pdf_path |-> file_path, pdf_name |-> filename,
      pdf_hash |-> GetPdfHash(folder, file_path)]

\* f"pdf-{pdf_hash}", the prefix of the names of the document's indexes
IndexPrefix(pdf_hash) == <<"p", "d", "f", "-">> \o pdf_hash

\* Two uploads.
ApplyGetPdfHash ==
  /\ call = NoCall
  /\ \E s1 \in Sessions, s2 \in Sessions, f1 \in Filenames, f2 \in Filenames,
        u1 \in PathUuids, u2 \in PathUuids, b1 \in Contents, b2 \in Contents :
       call' = [fn |-> "get_pdf_hash",
                first |-> Uploaded(s1, f1, u1, b1),
                second |-> Uploaded(s2, f2, u2, b2)]
  /\ Aside

NextPure ==
  \/ ApplyIsPdfProcessed
  \/ ApplySources
  \/ ApplySanitizeMetadata
  \/ ApplyGetPdfHash

SpecPure == Init /\ [][NextPure]_vars

----------------------------------------------------------------------------
(* The properties.                                                         *)

Processing(t) == th[t].op = "process"
Asking(t) == th[t].op = "ask"
Returned(t) == th[t].pc = "done"

\* The steps of a single attempt that talk to the index service.
AttemptSteps ==
  {"sa_cleanup", "cl_delete", "cl_poll", "sa_create", "sa_ready",
   "sa_upsert", "sa_verify"}

LoadFailures ==
  {"Failed to load PDF document", "No content could be extracted from the PDF"}

NotProcessed == Failure("PDF not processed or index not found")

\* C1: once an attempt of the backoff loop has succeeded, say attempt k, the
\* call has returned: exactly k attempts were started, k - 1 sleeps were
\* taken (one after each failure, none after the success), and the result
\* returned is the result of attempt k, unchanged.
C1_SuccessEndsTheLoop ==
  \A t \in Threads :
    (Processing(t) /\ hist[t].succeeded_at # 0) =>
      /\ Returned(t)
      /\ hist[t].attempts = hist[t].succeeded_at
      /\ hist[t].sleeps = hist[t].succeeded_at - 1
      /\ hist[t].last.success
      /\ th[t].result = hist[t].last

\* four attempts failed and the fifth succeeded
C1_Witness ==
  \E t \in Threads :
    /\ Processing(t) /\ Returned(t)
    /\ hist[t].succeeded_at = max_attempts
    /\ th[t].result.success

\* C2: a call whose attempts all failed returns after exactly 5 attempts and
\* 4 sleeps, with the failure of the 5th attempt unchanged; no sleep follows
\* the 5th failure.
C2_FailureAfterFiveAttempts ==
  \A t \in Threads :
    /\ (Processing(t) /\ Returned(t) /\ hist[t].attempts > 0
          /\ ~th[t].result.success) =>
         /\ hist[t].attempts = max_attempts
         /\ hist[t].sleeps = max_attempts - 1
         /\ th[t].result = hist[t].last
    /\ (Processing(t) /\ th[t].pc = "bo_sleep") =>
         /\ hist[t].attempts < max_attempts
         /\ hist[t].sleeps = hist[t].attempts

\* five attempts on a readable document failed on the index service
C2_Witness ==
  \E t \in Threads :
    /\ Processing(t) /\ Returned(t)
    /\ th[t].file = "ok"
    /\ hist[t].attempts = max_attempts
    /\ ~th[t].result.success
    /\ th[t].result.error # ""

\* C3, as the spec has it: a call made while a non-empty index of the hash
\* exists returns 'already processed' and has issued no create_index and no
\* delete_index call, whatever the remote calls of that path did.
C3_AsClaimed ==
  \A t \in Threads :
    (Processing(t) /\ Returned(t) /\ hist[t].had_vectors) =>
      /\ th[t].result = AlreadyProcessed
      /\ ~hist[t].mutated

\* C3, amended: a call made while a non-empty index of the hash exists, and
\* whose existence check, second listing and handle opening all returned,
\* returns 'already processed' without an attempt and without a create_index
\* or delete_index call; and 'already processed' is returned only when a
\* non-empty index existed, and never after such a call.
C3_AlreadyProcessed ==
  \A t \in Threads :
    /\ (Processing(t) /\ hist[t].clean /\ th[t].pc \notin {"pp_list", "pp_open"}) =>
         /\ Returned(t)
         /\ th[t].result = AlreadyProcessed
         /\ hist[t].opened
         /\ hist[t].attempts = 0
         /\ ~hist[t].mutated
    /\ (Processing(t) /\ Returned(t) /\ th[t].result.is_existing) =>
         /\ hist[t].had_vectors
         /\ hist[t].attempts = 0
         /\ ~hist[t].mutated

\* a second request for a document that a first one has indexed
C3_Witness ==
  \E t \in Threads :
    /\ Processing(t) /\ Returned(t)
    /\ hist[t].clean
    /\ th[t].result = AlreadyProcessed
    /\ vectorstores[th[t].pdf_hash] \in NonEmpty(th[t].pdf_hash)

\* C4: a call that returns the loader's failure (the loader raised, or it
\* gave no content) has made one attempt and has not slept.
C4_InputErrorsNotRetried ==
  \A t \in Threads :
    (Processing(t) /\ Returned(t) /\ th[t].result.error \in LoadFailures) =>
      /\ hist[t].attempts = 1
      /\ hist[t].sleeps = 0

\* C5: when a retry has created its index, the index that the failed attempt
\* before it created is gone or being deleted.
C5_FailedIndexSuperseded ==
  \A t \in Threads :
    (Processing(t) /\ th[t].pc = "sa_ready" /\ hist[t].prev_index # NoName) =>
      hist[t].prev_index \notin indexes \ terminating

\* C6: a get_answer call for a hash that had an index when it was called and
\* still has one, and none of whose remote calls raised, does not return a
\* failure, whatever was done to the cache meanwhile.
C6_CacheRacesBenign ==
  \A t \in Threads :
    (/\ Asking(t) /\ Returned(t)
     /\ hist[t].had_index
     /\ Matching(th[t].pdf_hash) \ terminating # {}
     /\ ~hist[t].fault) =>
      th[t].result.success

\* C7: when get_answer resolves the handle again after clear() dropped the
\* entry of an index that still exists, it queries that same index.
C7_ClearKeepsTheIndex ==
  \A t \in Threads :
    (/\ Asking(t) /\ th[t].pc = "ga_invoke"
     /\ hist[t].expected \in indexes \ terminating) =>
      th[t].vectorstore = hist[t].expected

\* C8: two attempts that run at once have different index names, and the
\* cleanup step deletes no index that an attempt created (every index of
\* SpecProcessing was created by an attempt).
C8_NamesNeverCollide ==
  /\ \A t, u \in Threads :
       (/\ t # u
        /\ Processing(t) /\ th[t].pc \in AttemptSteps
        /\ Processing(u) /\ th[u].pc \in AttemptSteps) =>
         th[t].index_name # th[u].index_name
  /\ terminating = {}
  /\ \A t \in Threads : th[t].pc # "cl_poll"

\* C9: nothing makes a process_pdf call wait for another one. A request that
\* has not started can always make its existence check, and a call inside an
\* attempt can always take its next step, wherever the other calls are; so
\* two calls for one hash run the pipeline at once and leave two indexes
\* with that hash (C9_Witness).
C9_NoMutualExclusion ==
  \A t \in Threads :
    /\ (th[t].pc = "idle" /\ InOrder(t)) => ENABLED ProcessCheck(t)
    /\ (Processing(t) /\ th[t].pc \in AttemptSteps \cup {"sa_load"}) =>
         ENABLED ProcessStep(t)

\* two calls for the same hash, each inside an attempt that has created its
\* own index
C9_Witness ==
  \E t, u \in Threads :
    /\ t # u
    /\ Processing(t) /\ Processing(u)
    /\ th[t].pdf_hash = th[u].pdf_hash
    /\ th[t].pc \in AttemptSteps /\ th[u].pc \in AttemptSteps
    /\ hist[t].made_index /\ hist[u].made_index
    /\ th[t].index_name # th[u].index_name
    /\ {th[t].index_name, th[u].index_name} \subseteq
         Matching(th[t].pdf_hash) \ terminating

\* C10, as the spec has it: a get_answer call made while the hash is not in
\* the cache and has no index returns the 'not processed' failure, without a
\* retrieval or generation call and without a write of the cache.
C10_AsClaimed ==
  \A t \in Threads :
    (Asking(t) /\ Returned(t) /\ ~hist[t].was_cached /\ ~hist[t].had_index) =>
      /\ th[t].result = NotProcessed
      /\ hist[t].invokes = 0
      /\ hist[t].cache_writes = 0

\* C10, amended: a get_answer call whose listing returned and showed no index
\* of the hash returns the 'not processed' failure, without a retrieval or
\* generation call and without a write of the cache; and a call made while
\* the hash is not in the cache and has no index, and whose listing did not
\* raise, is such a call.
C10_NotProcessed ==
  \A t \in Threads :
    /\ (Asking(t) /\ hist[t].listed_none) =>
         /\ Returned(t)
         /\ th[t].result = NotProcessed
         /\ hist[t].invokes = 0
         /\ hist[t].cache_writes = 0
    /\ (Asking(t) /\ Returned(t) /\ ~hist[t].was_cached /\ ~hist[t].had_index
          /\ ~hist[t].fault) =>
         hist[t].listed_none

\* a question about a document that was never indexed
C10_Witness ==
  \E t \in Threads :
    /\ Asking(t) /\ Returned(t)
    /\ ~hist[t].was_cached /\ ~hist[t].had_index
    /\ hist[t].listed_none
    /\ th[t].result = NotProcessed
    /\ vectorstores[th[t].pdf_hash] = NoName

\* C11: is_pdf_processed returns true exactly when list_indexes returns and
\* some listed index with the prefix of the hash can be accessed and reports
\* a vector count above zero; candidates that cannot be accessed, wherever
\* they stand in the listing, do not change that.
C11_TrueIffSomeIndexHasVectors ==
  call.fn = "is_pdf_processed" =>
    (call.value <=>
       /\ call.list_ok
       /\ \E i \in 1..Len(call.all_indexes) :
            /\ StartsWith(call.all_indexes[i].name, call.pdf_hash)
            /\ call.all_indexes[i].accessible
            /\ call.all_indexes[i].total_vector_count > 0)

\* the first candidate cannot be accessed, a later one has vectors
C11_Witness ==
  /\ call.fn = "is_pdf_processed"
  /\ call.value
  /\ Len(call.all_indexes) >= 2
  /\ StartsWith(call.all_indexes[1].name, call.pdf_hash)
  /\ ~call.all_indexes[1].accessible

C13_ProcessPdfTerminates ==
  /\ [](\A t \in Threads :
          /\ hist[t].attempts <= 5
          /\ th[t].attempt < 5
          /\ th[t].wait_time <= 18 * 5
          /\ th[t].elapsed <= 300
          /\ th[t].vs_attempt < 3
          /\ hist[t].tries <= 3)
  /\ \A t \in Threads : Processing(t) ~> Returned(t)

\* the call returns the failure of its fifth attempt, which has waited 300
\* seconds for its index
C13_Witness ==
  \E t \in Threads :
    /\ Processing(t) /\ Returned(t)
    /\ hist[t].attempts = 5
    /\ th[t].result = Failure("Failed to create Pinecone index: timeout")

\* C14: the sleep after failed attempt n (n = 1..4) lasts 2 * 2^(n-1) seconds
\* plus a jitter of at least 0 and less than 2 seconds. A request that is
\* about to start attempt n + 1 has just slept th[t].delay steps of
\* 1/JitterSteps of a second.
C14_DelayDoublesPlusJitter ==
  \A t \in Threads :
    (th[t].pc = "sa_load" /\ th[t].attempt >= 1) =>
      /\ th[t].attempt \in 1..4
      /\ th[t].delay >= 2 * (2 ^ (th[t].attempt - 1)) * JitterSteps
      /\ th[t].delay < (2 * (2 ^ (th[t].attempt - 1)) + 2) * JitterSteps

\* the third sleep, of 8 seconds and the largest jitter
C14_Witness ==
  \E t \in Threads :
    /\ th[t].pc = "sa_load"
    /\ th[t].attempt = 3
    /\ th[t].delay = 10 * JitterSteps - 1

\* C15: an attempt tries the population step (upsert, then verification) at
\* most 3 times, waits 15 seconds after the first and after the second failed
\* try and not after the third, fails on account of the population only when
\* 3 tries have failed, and a call makes at most 15 tries.
C15_PopulationTriedThreeTimes ==
  \A t \in Threads :
    Processing(t) =>
      /\ hist[t].tries <= 3
      /\ hist[t].all_tries <= 15
      /\ hist[t].all_tries <= 3 * hist[t].attempts
      /\ th[t].pc = "sa_upsert" =>
           /\ th[t].vs_attempt < 3
           /\ hist[t].tries = th[t].vs_attempt
           /\ hist[t].vs_waited = 15 * hist[t].tries
      /\ th[t].pc = "sa_verify" =>
           /\ hist[t].tries = th[t].vs_attempt + 1
           /\ hist[t].vs_waited = 15 * (hist[t].tries - 1)
      /\ hist[t].last = Failure("Failed to create vectorstore after 3 attempts") =>
           /\ hist[t].tries = 3
           /\ hist[t].vs_waited = 30

\* the second attempt, like the first, gave up after its third try
C15_Witness ==
  \E t \in Threads :
    /\ Processing(t)
    /\ hist[t].last = Failure("Failed to create vectorstore after 3 attempts")
    /\ hist[t].attempts = 2
    /\ hist[t].all_tries = 6
    /\ hist[t].vs_waited = 30

\* C16: while the attempt waits for its index, a check is made every 10
\* seconds as long as fewer than 300 seconds have passed; a check that raises
\* or finds the index not ready leaves the attempt waiting; a check that
\* finds it ready sends the attempt on to the population step; and the
\* attempt fails with the timeout error only when 300 seconds have passed.
C16_ReadinessPolling ==
  \A t \in Threads :
    /\ th[t].pc = "sa_ready" =>
         /\ th[t].elapsed \in 0..300
         /\ th[t].elapsed % 10 = 0
         /\ th[t].index_stats \in {"", "pending", "raised"}
         /\ th[t].index_stats = "" <=> th[t].elapsed = 0
    /\ th[t].index_stats = "ready" =>
         /\ th[t].pc = "sa_upsert"
         /\ th[t].elapsed < 300
    /\ th[t].pc = "bo_sleep" =>
         /\ hist[t].last = Failure("Failed to create Pinecone index: timeout") =>
              /\ th[t].elapsed = 300
              /\ th[t].index_stats \in {"pending", "raised"}
         /\ th[t].elapsed > 0 =>
              hist[t].last = Failure("Failed to create Pinecone index: timeout")

\* the index is found ready at the last check the bound allows, after a check
\* that raised or found it pending
C16_Witness ==
  \E t \in Threads :
    /\ th[t].pc = "sa_upsert"
    /\ th[t].index_stats = "ready"
    /\ th[t].elapsed = 290

\* C17: cleanup_existing_index deletes only an index that exists, checks at
\* most 18 times, 5 seconds apart, that it is gone, and in every case hands a
\* boolean back to line 207.
C17_CleanupReturnsABoolean ==
  \A t \in Threads :
    /\ th[t].pc = "cl_poll" =>
         /\ th[t].wait_time \in 0..90
         /\ th[t].wait_time % 5 = 0
    /\ th[t].pc = "sa_create" => th[t].cleanup \in {"True", "False"}

\* C18: a successful get_answer returns at most 3 sources, those of the first
\* retrieved chunks in their order; the excerpt of a chunk is its first 200
\* characters, followed by an ellipsis if the text is longer than 200
\* characters, and the whole text without ellipsis if it is not.
C18_ExcerptOfTwoHundred ==
  (call.fn = "sources" /\ call.has_context) =>
    /\ Len(call.value) = Min(3, Len(call.context))
    /\ \A i \in 1..Len(call.value) :
         LET text == call.context[i].page_content
         IN /\ call.value[i].metadata = call.context[i].metadata
            /\ call.value[i].content =
                 IF Len(text) > 200
                 THEN SubSeq(text, 1, 200) \o <<".", ".", ".">>
                 ELSE text

\* C19: sanitizing the metadata that sanitize_metadata returned gives the
\* same mapping again, for every key.
C19_SanitizeIsIdempotent ==
  call.fn = "sanitize_metadata" =>
    AsMapping(call.twice) = AsMapping(call.once)

\* C20: when sanitizing one field raises, the result still holds pdf_hash,
\* pdf_name and chunk_id, and the sanitized value of every other field of the
\* chunk, those after the failing field included.
C20_FailureSkipsOneFieldOnly ==
  call.fn = "sanitize_metadata" =>
    /\ {"pdf_hash", "pdf_name", "chunk_id"} \subseteq Keys(call.once)
    /\ \A i \in 1..Len(call.metadata) :
         LET k == call.metadata[i][1]
             v == call.metadata[i][2]
         IN ~Raises(k, v) =>
              /\ k \in Keys(call.once)
              /\ call.once[Get(call.once, k)][2] = SanitizeValue(k, v)

\* C21: two uploads of the same bytes get the same hash, whatever their
\* filenames, the paths they are stored under and their sessions, and with it
\* the same prefix of index names; the hash has 8 hexadecimal digits.
C21_HashOfTheBytesOnly ==
  call.fn = "get_pdf_hash" =>
    /\ Len(call.first.pdf_hash) = 8
    /\ \A i \in 1..8 : \E d \in 1..16 : call.first.pdf_hash[i] = HexDigits[d]
    /\ call.first.bytes = call.second.bytes =>
         /\ call.first.pdf_hash = call.second.pdf_hash
         /\ IndexPrefix(call.first.pdf_hash) = IndexPrefix(call.second.pdf_hash)

\* the same bytes under another name and another path, in another session
C21_Witness ==
  /\ call.fn = "get_pdf_hash"
  /\ call.first.bytes = call.second.bytes
  /\ call.first.pdf_name # call.second.pdf_name
  /\ call.first.pdf_path[1] # call.second.pdf_path[1]
  /\ call.first.session_id # call.second.session_id
  /\ call.first.pdf_hash = call.second.pdf_hash

\* C22: get_answer lists the remote indexes only when the hash has no cache
\* entry at the call; with an entry it goes on with the cached handle; on a
\* miss, once it has opened the index it found, the handle is in the cache
\* under the hash before the retrieval; and an entry stays until a clear, so
\* the next get_answer for the hash does not list.
C22_CacheConsultedFirst ==
  [][\A t \in Threads :
       /\ (th[t].pc = "idle" /\ Asking(t)') =>
            /\ vectorstores[th'[t].pdf_hash] # NoName => th'[t].pc = "ga_use"
            /\ vectorstores[th'[t].pdf_hash] = NoName => th'[t].pc = "ga_list"
       /\ (th[t].pc = "ga_open" /\ th'[t].pc = "ga_use") =>
            vectorstores'[th[t].pdf_hash] = th[t].matching_index
       /\ (th[t].pc = "ga_use" /\ th'[t].pc = "ga_invoke") =>
            /\ vectorstores[th[t].pdf_hash] # NoName
            /\ th'[t].vectorstore = vectorstores[th[t].pdf_hash]
       /\ \A h \in Hashes :
            (vectorstores[h] # NoName /\ vectorstores'[h] = NoName) =>
              (th' = th /\ dropped'[h] = vectorstores[h])]_vars

\* the second question finds the handle that the first one has opened
C22_Witness ==
  \E t, u \in Threads :
    /\ th[u].pc = "finished"
    /\ Asking(t)
    /\ hist[t].was_cached
    /\ th[t].pc = "ga_invoke"
    /\ th[t].vectorstore = vectorstores[th[t].pdf_hash]

\* C24: a handle that is resolved by the prefix of the hash, by process_pdf
\* on its already-processed path or by get_answer on a cache miss, while an
\* index of the hash holds vectors, is the handle of an index that holds
\* vectors.
C24_ResolvedHandleHasVectors ==
  \A t \in Threads :
    (th[t].pc \in {"pp_open", "ga_open"} /\ NonEmpty(th[t].pdf_hash) # {}) =>
      total_vector_count[th[t].matching_index] > 0

\* C25: process_pdf returns success for a hash only if some population try
\* for that hash, in this call or in an earlier one, completed both the upsert
\* of all chunks and the verification search: an index whose population was
\* not verified never makes a later call report "already processed".
C25_SuccessOnlyAfterVerification ==
  \A t \in Threads :
    (Processing(t) /\ Returned(t) /\ th[t].result.success) =>
      \E n \in verified : StartsWith(n, th[t].pdf_hash)

\* C26: after process_pdf returns a fresh (not "already processed") success,
\* the index it names holds each chunk of the document exactly once: the
\* population retries leave no vectors of earlier failed tries in it.
C26_EachChunkOnce ==
  \A t \in Threads :
    (/\ Processing(t) /\ Returned(t)
     /\ th[t].result.success /\ ~th[t].result.is_existing) =>
      total_vector_count[th[t].result.index_name] = th[t].result.chunk_count

\* C27: a process_pdf call that returns a failure leaves the cache as it was
\* before the call: the only steps of process_pdf that write the cache are
\* the one that opened the handle on the already-processed path and the one
\* that verified a population, and each of them ends the call with success.
C27_CacheWrittenOnSuccessOnly ==
  [][\A t \in Threads :
       (th'[t].op = "process" /\ th'[t] # th[t] /\ vectorstores' # vectorstores) =>
         /\ th[t].pc \in {"pp_open", "sa_verify"}
         /\ th'[t].pc = "done"
         /\ th'[t].result.success
         /\ hist[t].cache_writes = 0]_vars

\* A call returned a failure while the cache held an entry of its hash, the
\* one an earlier call had written.
C27_Witness ==
  \E t \in Threads :
    /\ Processing(t) /\ Returned(t) /\ ~th[t].result.success
    /\ hist[t].attempts = max_attempts
    /\ hist[t].cache_writes = 0
    /\ vectorstores[th[t].pdf_hash] # NoName

InputFailures ==
  LoadFailures \cup {"No text chunks could be created"}

\* C28: within an attempt no remote index is deleted or created unless
\* loading yielded a segment and chunking yielded a chunk: a call on a
\* document that cannot be loaded, has no content or gives no chunks never
\* reaches the index calls, and an attempt that ended with one of these
\* failures has issued no create_index and no delete_index call.
C28_NoIndexCallWithoutChunks ==
  \A t \in Threads :
    /\ (Processing(t) /\ th[t].file # "ok") =>
         /\ th[t].pc \notin AttemptSteps
         /\ ~hist[t].mutated
         /\ ~hist[t].made_index
    /\ (Processing(t) /\ hist[t].last.error \in InputFailures) =>
         /\ th[t].file # "ok"
         /\ ~hist[t].made_index

\* Five attempts on a document that gives no chunks, while the service holds
\* an index under the very name the first attempt computed: it is still
\* there.
C28_Witness ==
  \E t \in Threads :
    /\ Processing(t) /\ Returned(t)
    /\ th[t].file = "nochunks"
    /\ hist[t].attempts = max_attempts
    /\ hist[t].last.error = "No text chunks could be created"
    /\ IndexName(th[t].pdf_hash, 0) \in indexes \ terminating

\* C23: in any sequence of upload, process, ask and reset requests of one
\* session, the processed flag is true only if processor.process_pdf has
\* returned success for the session's current hash since the last upload; an
\* upload or a reset clears the flag; and a question reaches get_answer only
\* while the flag is true, with the hash of the session.
C23_FlagMeansProcessed ==
  /\ session.is_processed =>
       /\ session.pdf_hash # ""
       /\ succeeded = session.pdf_hash
  /\ \A t \in Threads :
       (Asking(t) /\ th[t].pc # "finished") =>
         /\ session.is_processed
         /\ th[t].pdf_hash = session.pdf_hash

\* A document was uploaded and processed, and a question about it was
\* answered from the index the processing made.
C23_Witness ==
  /\ session.is_processed
  /\ succeeded = session.pdf_hash
  /\ \E t \in Threads :
       /\ Asking(t) /\ Returned(t) /\ th[t].result.success
       /\ vectorstores[th[t].pdf_hash] \in verified

====
